---------------------------- MODULE Spec2Model ----------------------------
(***************************************************************************)
(* Model of subcmds/cherry_pick.py: the CherryPick command.                *)
(*                                                                         *)
(* Text is modelled character by character: a string is a sequence of      *)
(* one-character strings, so that splitting into lines, stripping,         *)
(* joining and the Change-Id pattern are computed, not assumed.            *)
(***************************************************************************)
EXTENDS Naturals, Sequences, FiniteSets, TLC

VARIABLES
    pc,         \* position of the run: which statement of the command is next
    args,       \* the positional arguments handed to the command
    sha1,       \* Execute's local sha1
    old_msg,    \* Execute's local old_msg / _Reformat's parameter old_msg
    new_msg,    \* Execute's local new_msg / _Reformat's result
    again_msg,  \* _Reformat applied to new_msg (second application)
    p_stdout,   \* p.stdout of the most recent GitCommand
    p_stderr,   \* p.stderr of the most recent GitCommand
    events      \* everything observable, in order: git commands started
                \* and completed, log records, lines printed to
                \* sys.stdout / sys.stderr, the exception leaving the command

vars == <<pc, args, sha1, old_msg, new_msg, again_msg, p_stdout, p_stderr,
          events>>

---------------------------------------------------------------------------
(* Characters and Python's str helpers                                     *)

LF == "\n"
CR == "\r"

\* Characters for which str.isspace() holds (and that \s matches).
Whitespace == {" ", "\t", LF, CR, "\f"}

\* Characters at which str.splitlines() breaks a line.
LineBoundary == {LF, CR, "\f"}

\* [0-9a-f]
HexDigit == {"0", "1", "2", "3", "4", "5", "6", "7", "8", "9",
             "a", "b", "c", "d", "e", "f"}

\* {40} in CHANGE_ID_RE
ChangeIdHexLen == 40

Rep(c, n) == [i \in 1..n |-> c]

\* str.splitlines(): the text up to the next boundary is a line (CR LF
\* counts as one boundary), and so on from the character after it; text
\* after the last boundary is a line only if it is non-empty.
RECURSIVE SplitFrom(_, _)
SplitFrom(s, i) ==
    IF i > Len(s) THEN <<>>
    ELSE LET bs == {k \in i..Len(s) : s[k] \in LineBoundary}
         IN  IF bs = {} THEN <<SubSeq(s, i, Len(s))>>
             ELSE LET k == CHOOSE m \in bs : \A n \in bs : m <= n
                      next == IF s[k] = CR /\ k < Len(s) /\ s[k + 1] = LF
                              THEN k + 2 ELSE k + 1
                  IN  <<SubSeq(s, i, k - 1)>> \o SplitFrom(s, next)

splitlines(s) == SplitFrom(s, 1)

\* sep.join(lines)
RECURSIVE join(_, _)
join(sep, lines) ==
    IF lines = <<>> THEN <<>>
    ELSE IF Len(lines) = 1 THEN lines[1]
    ELSE lines[1] \o sep \o join(sep, Tail(lines))

RECURSIVE lstrip(_)
lstrip(s) ==
    IF s # <<>> /\ s[1] \in Whitespace THEN lstrip(Tail(s)) ELSE s

RECURSIVE rstrip(_)
rstrip(s) ==
    IF s # <<>> /\ s[Len(s)] \in Whitespace
    THEN rstrip(SubSeq(s, 1, Len(s) - 1)) ELSE s

\* str.strip()
strip(s) == rstrip(lstrip(s))

---------------------------------------------------------------------------
(* The command's helpers                                                   *)

ChangeIdLiteral ==
    <<"C", "h", "a", "n", "g", "e", "-", "I", "d", ":", " ", "I">>

\* Number of leading characters of s, from position i on, that lie in set.
RECURSIVE Run(_, _, _)
Run(s, i, set) ==
    IF i <= Len(s) /\ s[i] \in set THEN 1 + Run(s, i + 1, set) ELSE 0

\* Faulty variant: the pattern reduced to an unanchored [0-9a-f]{40}.
CHANGE_ID_RE_Unanchored(line) ==
    \E i \in 1..Len(line) :
        /\ i + ChangeIdHexLen - 1 <= Len(line)
        /\ \A k \in i..(i + ChangeIdHexLen - 1) : line[k] \in HexDigit

\* CHANGE_ID_RE.match(line) is not None, with
\* CHANGE_ID_RE = ^\s*Change-Id: I([0-9a-f]{40})\s*$
\* matched left to right: leading \s*, the literal, exactly 40 hex digits,
\* then \s* up to the end of the string.  (The literal starts with a
\* non-space and \s and the hex digits are disjoint, so the greedy scan
\* decides the match.)
CHANGE_ID_RE(line) ==
    LET a == Run(line, 1, Whitespace)
        b == a + Len(ChangeIdLiteral)
        c == b + ChangeIdHexLen
    IN  /\ c <= Len(line)
        /\ SubSeq(line, a + 1, b) = ChangeIdLiteral
        /\ \A k \in (b + 1)..c : line[k] \in HexDigit
        /\ c + Run(line, c + 1, Whitespace) = Len(line)

_IsChangeId(line) == CHANGE_ID_RE(line)

ReferenceLiteral ==
    <<"(", "c", "h", "e", "r", "r", "y", " ", "p", "i", "c", "k", "e", "d",
      " ", "f", "r", "o", "m", " ", "c", "o", "m", "m", "i", "t", " ">>

\* Faulty variant: the abbreviated identifier, sha1[:7].
_GetReference_Short(s) ==
    ReferenceLiteral \o SubSeq(s, 1, IF Len(s) < 7 THEN Len(s) ELSE 7) \o <<")">>

\* "(cherry picked from commit %s)" % sha1
_GetReference(s) == ReferenceLiteral \o s \o <<")">>

\* lines.index("") raises ValueError when no line is the empty string.
StripHeaderRaises(commit_msg) ==
    \A i \in 1..Len(splitlines(commit_msg)) : splitlines(commit_msg)[i] # <<>>

\* Faulty variant: the first blank (whitespace-only) line is taken for the
\* separator.
_StripHeader_Blank(commit_msg) ==
    LET lines == splitlines(commit_msg)
        index == CHOOSE i \in 1..Len(lines) :
                     /\ strip(lines[i]) = <<>>
                     /\ \A j \in 1..(i - 1) : strip(lines[j]) # <<>>
    IN  join(<<LF>>, SubSeq(lines, index + 1, Len(lines)))

\* "\n".join(lines[lines.index("") + 1:])
_StripHeader(commit_msg) ==
    LET lines == splitlines(commit_msg)
        index == CHOOSE i \in 1..Len(lines) :
                     /\ lines[i] = <<>>
                     /\ \A j \in 1..(i - 1) : lines[j] # <<>>
    IN  join(<<LF>>, SubSeq(lines, index + 1, Len(lines)))

\* Faulty variant: only the first matching line is dropped.
RECURSIVE RetainLoop_FirstOnly(_, _, _)
RetainLoop_FirstOnly(lines, i, kept) ==
    IF i > Len(lines) THEN kept
    ELSE IF ~_IsChangeId(lines[i])
         THEN RetainLoop_FirstOnly(lines, i + 1, Append(kept, lines[i]))
         ELSE kept \o SubSeq(lines, i + 1, Len(lines))

\* for line in old_msg.splitlines(): if not _IsChangeId(line): append
RECURSIVE RetainLoop(_, _, _)
RetainLoop(lines, i, kept) ==
    IF i > Len(lines) THEN kept
    ELSE IF ~_IsChangeId(lines[i])
         THEN RetainLoop(lines, i + 1, Append(kept, lines[i]))
         ELSE RetainLoop(lines, i + 1, kept)

\* Faulty variant: new_msg[-1] != "" (the strip forgotten).
AddSeparator_NoStrip(kept) ==
    IF kept = <<>> THEN kept
    ELSE IF kept[Len(kept)] # <<>> THEN Append(kept, <<>>)
    ELSE kept

\* Faulty variant: == "" in place of != "".
AddSeparator_Inverted(kept) ==
    IF kept = <<>> THEN kept
    ELSE IF strip(kept[Len(kept)]) = <<>> THEN Append(kept, <<>>)
    ELSE kept

\* Faulty variant: the separator is added to an empty message as well.
AddSeparator_EmptyToo(kept) ==
    IF kept = <<>> THEN Append(kept, <<>>)
    ELSE IF strip(kept[Len(kept)]) # <<>> THEN Append(kept, <<>>)
    ELSE kept

\* try: if new_msg[-1].strip() != "": new_msg.append("")
\* except IndexError: pass
AddSeparator(kept) ==
    IF kept = <<>> THEN kept
    ELSE IF strip(kept[Len(kept)]) # <<>> THEN Append(kept, <<>>)
    ELSE kept

_Reformat(msg, s) ==
    join(<<LF>>, Append(AddSeparator(RetainLoop(splitlines(msg), 1, <<>>)),
                        _GetReference(s)))

---------------------------------------------------------------------------
(* Inputs                                                                  *)

\* Largest number of pieces a generated message body is built from.
MaxPieces == 5

FixBug == <<"F", "i", "x", " ", "b", "u", "g">>

\* Two full (40 hex digit) commit identifiers.
ShaA == [i \in 1..40 |-> <<"a", "b", "c", "1", "2", "3">>[((i - 1) % 6) + 1]]
ShaB == Rep("9", 39) \o <<"f">>
Shas == {ShaA, ShaB}

\* A line matching the Change-Id pattern.
ChangeIdLine ==
    ChangeIdLiteral \o [i \in 1..40 |-> <<"0", "1", "2", "3">>[((i - 1) % 4) + 1]]

\* A message body is any concatenation of at most MaxPieces pieces: text,
\* a space, a Change-Id line, a hex digit (which spoils a Change-Id line it
\* touches), LF and CR.  Blank lines, CR LF, trailing newlines, Change-Id
\* lines with surrounding whitespace and near misses all arise.
Pieces == {FixBug, <<" ">>, ChangeIdLine, <<"a">>, <<LF>>, <<CR>>}

RECURSIVE Concats(_)
Concats(n) ==
    IF n = 0 THEN {<<>>}
    ELSE LET shorter == Concats(n - 1)
         IN  shorter \cup {b \o q : b \in shorter, q \in Pieces}

Bodies == Concats(MaxPieces)

---------------------------------------------------------------------------
(* The command: ValidateOptions and Execute                                *)

\* Largest number of lines after the header line in a generated raw commit.
MaxRawLines == 4

NoteLiteral ==
    <<"N", "O", "T", "E", ":", " ", "W", "h", "e", "n", " ", "c", "o",
      "m", "m", "i", "t", "t", "i", "n", "g", " ", "(", "p", "l", "e",
      "a", "s", "e", " ", "s", "e", "e", " ", "a", "b", "o", "v", "e",
      ")", " ", "a", "n", "d", " ", "e", "d", "i", "t", "i", "n", "g",
      " ", "t", "h", "e", " ", "c", "o", "m", "m", "i", "t", " ", "m",
      "e", "s", "s", "a", "g", "e", ",", " ", "p", "l", "e", "a", "s",
      "e", " ", "r", "e", "m", "o", "v", "e", " ", "t", "h", "e", " ",
      "o", "l", "d", " ", "C", "h", "a", "n", "g", "e", "-", "I", "d",
      "-", "l", "i", "n", "e", " ", "a", "n", "d", " ", "a", "d", "d",
      ":", "\n">>

RetrieveFailedLiteral ==
    <<"e", "r", "r", "o", "r", ":", " ", "F", "a", "i", "l", "e", "d",
      " ", "t", "o", " ", "r", "e", "t", "r", "i", "e", "v", "e", " ",
      "o", "l", "d", " ", "c", "o", "m", "m", "i", "t", " ", "m", "e",
      "s", "s", "a", "g", "e">>

UpdateFailedLiteral ==
    <<"e", "r", "r", "o", "r", ":", " ", "F", "a", "i", "l", "e", "d",
      " ", "t", "o", " ", "u", "p", "d", "a", "t", "e", " ", "c", "o",
      "m", "m", "i", "t", " ", "m", "e", "s", "s", "a", "g", "e">>

TreeHeader ==
    <<"t", "r", "e", "e", " ", "4", "b", "8", "2", "5", "d", "c">>

Fatal ==
    <<"f", "a", "t", "a", "l", ":", " ", "b", "a", "d">>

Main ==
    <<"m", "a", "i", "n">>

Picked ==
    <<"[", "m", "a", "i", "n", " ", "1", "]", " ", "F", "i", "x", " ",
      "b", "u", "g", "\n">>

Hint ==
    <<"h", "i", "n", "t", ":", " ", "d", "o", "n", "e", "\n">>

Ev(kind, op, text, err) == [kind |-> kind, op |-> op, text |-> text, err |-> err]

\* GitCommand(None, [op, ...]): the external command is started.
GitCommand(op, argument) == Ev("git", op, argument, <<>>)

\* p.Wait() returned: the command succeeded with these captured streams.
Waited(op, out, err) == Ev("ok", op, out, err)

\* An exception of the given type leaves the command while it is at op.
Raise(op, type) == Ev("raise", op, type, <<>>)

\* What the user may pass: a branch name, an abbreviated identifier.
References == {Main, <<"a", "b", "c", "1", "2", "3">>}
ArgLists == {<<>>} \cup {<<r>> : r \in References}
                   \cup {<<r, q>> : r \in References, q \in {Main}}

\* Captured stdout of a successful rev-parse --verify: the full identifier
\* and a newline (one variant with more surrounding whitespace).
RevParseStdouts ==
    {s \o <<LF>> : s \in Shas} \cup {<<" ">> \o ShaB \o <<CR, LF>>}

\* Captured stderr of a failed command.
Diagnostics == {Fatal, <<>>}

\* Raw commit objects: a header line, then up to MaxRawLines further lines,
\* each newline-terminated.  The first empty line, if there is one, ends the
\* header; objects without one are malformed.
RawLinePool == {<<>>, FixBug, ChangeIdLine, <<" ">>}

RECURSIVE RawTails(_)
RawTails(n) ==
    IF n = 0 THEN {<<>>}
    ELSE LET shorter == RawTails(n - 1)
         IN  shorter \cup {t \o l \o <<LF>> : t \in shorter, l \in RawLinePool}

RawCommits == {TreeHeader \o <<LF>> \o t : t \in RawTails(MaxRawLines)}

\* Captured streams of a successful cherry-pick.
PickStdouts == {<<>>, Picked, <<" ", LF>>}
PickStderrs == {<<>>, Hint, <<" ">> \o Hint}

Init ==
    /\ pc = "validate"
    /\ args \in ArgLists
    /\ sha1 = <<>>
    /\ old_msg = <<>>
    /\ new_msg = <<>>
    /\ again_msg = <<>>
    /\ p_stdout = <<>>
    /\ p_stderr = <<>>
    /\ events = <<>>

\* self.Usage(): prints the usage and ends the command with a usage error.
Usage == <<Ev("usage", "validate", <<>>, <<>>), Raise("validate", "UsageError")>>

\* Faulty variant: len(args) < 1 (more than one argument accepted).
ValidateOptions_AtLeastOne ==
    /\ pc = "validate"
    /\ IF Len(args) < 1
       THEN /\ events' = events \o Usage
            /\ pc' = "failed"
       ELSE /\ events' = events
            /\ pc' = "execute"
    /\ UNCHANGED <<args, sha1, old_msg, new_msg, again_msg, p_stdout, p_stderr>>

\* ValidateOptions: with exactly one argument it does nothing and the
\* command goes on to Execute.
ValidateOptions ==
    /\ pc = "validate"
    /\ IF Len(args) # 1
       THEN /\ events' = events \o Usage
            /\ pc' = "failed"
       ELSE /\ events' = events
            /\ pc' = "execute"
    /\ UNCHANGED <<args, sha1, old_msg, new_msg, again_msg, p_stdout, p_stderr>>

\* Execute begins: reference = args[0]; rev-parse --verify is started.
Execute ==
    /\ pc = "execute"
    /\ events' = Append(events, GitCommand("rev-parse", args[1]))
    /\ pc' = "rev-parse"
    /\ UNCHANGED <<args, sha1, old_msg, new_msg, again_msg, p_stdout, p_stderr>>

\* rev-parse succeeded: sha1 = p.stdout.strip(); cat-file is started.
RevParseOk ==
    /\ pc = "rev-parse"
    /\ \E out \in RevParseStdouts :
        /\ p_stdout' = out
        /\ p_stderr' = <<>>
        /\ sha1' = strip(out)
        /\ events' = events \o <<Waited("rev-parse", out, <<>>),
                                 GitCommand("cat-file", strip(out))>>
    /\ pc' = "cat-file"
    /\ UNCHANGED <<args, old_msg, new_msg, again_msg>>

\* Faulty variant: the raise after logger.error(p.stderr) is missing.
RevParseFail_Swallowed ==
    /\ pc = "rev-parse"
    /\ \E err \in Diagnostics :
        /\ p_stderr' = err
        /\ events' = events \o <<Ev("error", "rev-parse", err, <<>>),
                                 GitCommand("cat-file", <<>>)>>
    /\ p_stdout' = <<>>
    /\ sha1' = <<>>
    /\ pc' = "cat-file"
    /\ UNCHANGED <<args, old_msg, new_msg, again_msg>>

\* except GitError: logger.error(p.stderr); raise
RevParseFail ==
    /\ pc = "rev-parse"
    /\ \E err \in Diagnostics :
        /\ p_stderr' = err
        /\ events' = events \o <<Ev("error", "rev-parse", err, <<>>),
                                 Raise("rev-parse", "GitError")>>
    /\ p_stdout' = <<>>
    /\ pc' = "failed"
    /\ UNCHANGED <<args, sha1, old_msg, new_msg, again_msg>>

\* cat-file succeeded and the object has a header: old_msg is the body;
\* cherry-pick is started.
CatFileOk ==
    /\ pc = "cat-file"
    /\ \E out \in RawCommits :
        /\ ~StripHeaderRaises(out)
        /\ p_stdout' = out
        /\ old_msg' = _StripHeader(out)
        /\ events' = events \o <<Waited("cat-file", out, <<>>),
                                 GitCommand("cherry-pick", sha1)>>
    /\ p_stderr' = <<>>
    /\ pc' = "cherry-pick"
    /\ UNCHANGED <<args, sha1, new_msg, again_msg>>

\* Faulty variant: an object without an empty line yields an empty message
\* and the command goes on.
CatFileMalformed_Silent ==
    /\ pc = "cat-file"
    /\ \E out \in RawCommits :
        /\ StripHeaderRaises(out)
        /\ p_stdout' = out
        /\ events' = events \o <<Waited("cat-file", out, <<>>),
                                 GitCommand("cherry-pick", sha1)>>
    /\ old_msg' = <<>>
    /\ p_stderr' = <<>>
    /\ pc' = "cherry-pick"
    /\ UNCHANGED <<args, sha1, new_msg, again_msg>>

\* cat-file succeeded but no line of the object is empty: lines.index("")
\* raises ValueError, which nothing in Execute catches.
CatFileMalformed ==
    /\ pc = "cat-file"
    /\ \E out \in RawCommits :
        /\ StripHeaderRaises(out)
        /\ p_stdout' = out
        /\ events' = events \o <<Waited("cat-file", out, <<>>),
                                 Raise("cat-file", "ValueError")>>
    /\ p_stderr' = <<>>
    /\ pc' = "failed"
    /\ UNCHANGED <<args, sha1, old_msg, new_msg, again_msg>>

\* Faulty variant: the raise after logger.error("error: Failed to retrieve ...")
\* is missing.
CatFileFail_Swallowed ==
    /\ pc = "cat-file"
    /\ events' = events \o <<Ev("error", "cat-file", RetrieveFailedLiteral, <<>>),
                             GitCommand("cherry-pick", sha1)>>
    /\ p_stdout' = <<>>
    /\ p_stderr' = <<>>
    /\ pc' = "cherry-pick"
    /\ UNCHANGED <<args, sha1, old_msg, new_msg, again_msg>>

\* except GitError: logger.error("error: Failed to retrieve ..."); raise
CatFileFail ==
    /\ pc = "cat-file"
    /\ events' = events \o <<Ev("error", "cat-file", RetrieveFailedLiteral, <<>>),
                             Raise("cat-file", "GitError")>>
    /\ p_stdout' = <<>>
    /\ p_stderr' = <<>>
    /\ pc' = "failed"
    /\ UNCHANGED <<args, sha1, old_msg, new_msg, again_msg>>

\* Faulty variant: the two tests for a non-empty stream are missing.
Echo_Unguarded(out, err) ==
    <<Ev("stdout", "cherry-pick", strip(out), <<>>),
      Ev("stderr", "cherry-pick", strip(err), <<>>)>>

\* if p.stdout: print(p.stdout.strip(), file=sys.stdout)
\* if p.stderr: print(p.stderr.strip(), file=sys.stderr)
Echo(out, err) ==
    (IF out # <<>> THEN <<Ev("stdout", "cherry-pick", strip(out), <<>>)>>
     ELSE <<>>)
    \o (IF err # <<>> THEN <<Ev("stderr", "cherry-pick", strip(err), <<>>)>>
        ELSE <<>>)

\* Faulty variant: the echo moved below the start of commit --amend.
AfterPick_EchoLate(out, err, msg) ==
    <<GitCommand("commit --amend", msg)>> \o Echo(out, err)

\* Lines 97-113: the replay's output is echoed, the message is rewritten and
\* commit --amend is started with it on standard input.
AfterPick(out, err, msg) ==
    Echo(out, err) \o <<GitCommand("commit --amend", msg)>>

\* Faulty variant: the message is rewritten from the replay's own output,
\* not from the message read before the replay.
CherryPickOk_FromNewOutput ==
    /\ pc = "cherry-pick"
    /\ \E out \in PickStdouts, err \in PickStderrs :
        /\ p_stdout' = out
        /\ p_stderr' = err
        /\ events' = events \o <<Waited("cherry-pick", out, err)>>
                            \o AfterPick(out, err, _Reformat(out, sha1))
        /\ new_msg' = _Reformat(out, sha1)
    /\ pc' = "commit --amend"
    /\ UNCHANGED <<args, sha1, old_msg, again_msg>>

\* cherry-pick succeeded.
CherryPickOk ==
    /\ pc = "cherry-pick"
    /\ \E out \in PickStdouts, err \in PickStderrs :
        /\ p_stdout' = out
        /\ p_stderr' = err
        /\ events' = events \o <<Waited("cherry-pick", out, err)>>
                            \o AfterPick(out, err, _Reformat(old_msg, sha1))
    /\ new_msg' = _Reformat(old_msg, sha1)
    /\ pc' = "commit --amend"
    /\ UNCHANGED <<args, sha1, old_msg, again_msg>>

\* Faulty variant: the hint built from the reference the user passed.
Note_FromReference(s) ==
    Ev("warn", "cherry-pick", NoteLiteral \o _GetReference(args[1]), <<>>)

\* logger.warn("NOTE: ... add:\n%s", self._GetReference(sha1))
Note(s) == Ev("warn", "cherry-pick", NoteLiteral \o _GetReference(s), <<>>)

\* Faulty variant: the failed cherry-pick is started again.
CherryPickFail_Retry ==
    /\ pc = "cherry-pick"
    /\ \E err \in Diagnostics :
        /\ p_stderr' = err
        /\ events' = events \o <<Ev("error", "cherry-pick", err, <<>>),
                                 GitCommand("cherry-pick", sha1)>>
    /\ p_stdout' = <<>>
    /\ pc' = "cherry-pick"
    /\ UNCHANGED <<args, sha1, old_msg, new_msg, again_msg>>

\* except GitError as e: logger.error(e); logger.warn(...); raise
CherryPickFail ==
    /\ pc = "cherry-pick"
    /\ \E err \in Diagnostics :
        /\ p_stderr' = err
        /\ events' = events \o <<Ev("error", "cherry-pick", err, <<>>),
                                 Note(sha1),
                                 Raise("cherry-pick", "GitError")>>
    /\ p_stdout' = <<>>
    /\ pc' = "failed"
    /\ UNCHANGED <<args, sha1, old_msg, new_msg, again_msg>>

\* commit --amend succeeded: Execute returns.
AmendOk ==
    /\ pc = "commit --amend"
    /\ events' = Append(events, Waited("commit --amend", <<>>, <<>>))
    /\ p_stdout' = <<>>
    /\ p_stderr' = <<>>
    /\ pc' = "done"
    /\ UNCHANGED <<args, sha1, old_msg, new_msg, again_msg>>

\* Faulty variant: the replayed commit is undone before the failure is
\* re-raised.
AmendFail_Reset ==
    /\ pc = "commit --amend"
    /\ events' = events \o <<Ev("error", "commit --amend", UpdateFailedLiteral, <<>>),
                             GitCommand("reset", sha1),
                             Raise("commit --amend", "GitError")>>
    /\ p_stdout' = <<>>
    /\ p_stderr' = <<>>
    /\ pc' = "failed"
    /\ UNCHANGED <<args, sha1, old_msg, new_msg, again_msg>>

\* except GitError: logger.error("error: Failed to update ..."); raise
AmendFail ==
    /\ pc = "commit --amend"
    /\ events' = events \o <<Ev("error", "commit --amend", UpdateFailedLiteral, <<>>),
                             Raise("commit --amend", "GitError")>>
    /\ p_stdout' = <<>>
    /\ p_stderr' = <<>>
    /\ pc' = "failed"
    /\ UNCHANGED <<args, sha1, old_msg, new_msg, again_msg>>

Next ==
    \/ ValidateOptions
    \/ Execute
    \/ RevParseOk
    \/ RevParseFail
    \/ CatFileOk
    \/ CatFileMalformed
    \/ CatFileFail
    \/ CherryPickOk
    \/ CherryPickFail
    \/ AmendOk
    \/ AmendFail

Spec == Init /\ [][Next]_vars

---------------------------------------------------------------------------
(* _Reformat as a function: applied once, then to its own output           *)

InitReformat ==
    /\ pc = "reformat"
    /\ old_msg \in Bodies
    /\ sha1 \in Shas
    /\ new_msg = <<>>
    /\ again_msg = <<>>
    /\ args = <<>>
    /\ p_stdout = <<>>
    /\ p_stderr = <<>>
    /\ events = <<>>

Reformat ==
    /\ pc = "reformat"
    /\ new_msg' = _Reformat(old_msg, sha1)
    /\ pc' = "reformatted"
    /\ UNCHANGED <<args, sha1, old_msg, again_msg, p_stdout, p_stderr,
                   events>>

ReformatAgain ==
    /\ pc = "reformatted"
    /\ again_msg' = _Reformat(new_msg, sha1)
    /\ pc' = "reformatted_twice"
    /\ UNCHANGED <<args, sha1, old_msg, new_msg, p_stdout, p_stderr,
                   events>>

NextReformat == Reformat \/ ReformatAgain

SpecReformat == InitReformat /\ [][NextReformat]_vars

---------------------------------------------------------------------------
(* _StripHeader as a function                                              *)

\* Largest number of pieces a generated raw commit text is built from.
MaxStripPieces == 5

\* A raw text is any concatenation of at most MaxStripPieces pieces: a
\* header line, message text, a space, LF and CR.  Texts without an empty
\* line, with whitespace-only lines and with several empty lines all arise.
StripPieces == {TreeHeader, FixBug, <<" ">>, <<LF>>, <<CR>>}

RECURSIVE StripConcats(_)
StripConcats(n) ==
    IF n = 0 THEN {<<>>}
    ELSE LET shorter == StripConcats(n - 1)
         IN  shorter \cup {b \o q : b \in shorter, q \in StripPieces}

RawTexts == StripConcats(MaxStripPieces)

InitStripHeader ==
    /\ pc = "strip"
    /\ p_stdout \in RawTexts
    /\ old_msg = <<>>
    /\ sha1 = <<>>
    /\ new_msg = <<>>
    /\ again_msg = <<>>
    /\ args = <<>>
    /\ p_stderr = <<>>
    /\ events = <<>>

\* _StripHeader(p.stdout) returns.
StripHeaderReturns ==
    /\ pc = "strip"
    /\ ~StripHeaderRaises(p_stdout)
    /\ old_msg' = _StripHeader(p_stdout)
    /\ pc' = "stripped"
    /\ UNCHANGED <<args, sha1, new_msg, again_msg, p_stdout, p_stderr, events>>

\* _StripHeader(p.stdout) raises ValueError.
StripHeaderValueError ==
    /\ pc = "strip"
    /\ StripHeaderRaises(p_stdout)
    /\ events' = Append(events, Raise("strip", "ValueError"))
    /\ pc' = "strip-raised"
    /\ UNCHANGED <<args, sha1, old_msg, new_msg, again_msg, p_stdout, p_stderr>>

NextStripHeader == StripHeaderReturns \/ StripHeaderValueError

SpecStripHeader == InitStripHeader /\ [][NextStripHeader]_vars

---------------------------------------------------------------------------
(* What the specification says, stated independently of the code's loops   *)

\* The Provenance Reference line for identifier s.
ProvenanceLine(s) ==
    <<"(", "c", "h", "e", "r", "r", "y", " ", "p", "i", "c", "k", "e", "d",
      " ", "f", "r", "o", "m", " ", "c", "o", "m", "m", "i", "t", " ">>
    \o s \o <<")">>

\* A line is blank when it holds nothing but whitespace.
IsBlank(line) == \A k \in 1..Len(line) : line[k] \in Whitespace

\* The Change-Id Trailer pattern, declaratively: some split of the line into
\* whitespace, "Change-Id: I", forty hex digits, whitespace.
MatchesChangeIdPattern(line) ==
    \E i \in 0..Len(line) :
        LET j == i + 12
            k == j + 40
        IN  /\ k <= Len(line)
            /\ \A n \in 1..i : line[n] \in Whitespace
            /\ SubSeq(line, i + 1, j) =
                   <<"C", "h", "a", "n", "g", "e", "-", "I", "d", ":", " ", "I">>
            /\ \A n \in (j + 1)..k : line[n] \in HexDigit
            /\ \A n \in (k + 1)..Len(line) : line[n] \in Whitespace

KeepsLine(line) == ~MatchesChangeIdPattern(line)

\* The lines of a body that do not match the pattern, in order.
Retained(msg) == SelectSeq(splitlines(msg), KeepsLine)

Last(seq) == seq[Len(seq)]

EndsWith(s, t) ==
    /\ Len(t) <= Len(s)
    /\ SubSeq(s, Len(s) - Len(t) + 1, Len(s)) = t

---------------------------------------------------------------------------
(* Claims about a run of the command, read off the record of events        *)

StageOrder == <<"rev-parse", "cat-file", "cherry-pick", "commit --amend">>

IsGitCommand(e) == e.kind = "git"

\* The external operations started so far, in order.
Started ==
    LET gs == SelectSeq(events, IsGitCommand)
    IN  [i \in 1..Len(gs) |-> gs[i].op]

IsPrefix(a, b) == Len(a) <= Len(b) /\ SubSeq(b, 1, Len(a)) = a

\* A record of the given kind for op is among the events.
Has(kind, op) ==
    \E i \in 1..Len(events) : events[i].kind = kind /\ events[i].op = op

\* The stage at op failed: its failure was logged or left the command.
StageFailed(op) == Has("error", op) \/ Has("raise", op)

\* The command ended by raising from op, and nothing happened after that.
AbortedAt(op, type) ==
    /\ pc = "failed"
    /\ events # <<>>
    /\ events[Len(events)] = Raise(op, type)

\* Leading and trailing whitespace removed.
Trimmed(s) ==
    LET solid == {i \in 1..Len(s) : s[i] \notin Whitespace}
    IN  IF solid = {} THEN <<>>
        ELSE SubSeq(s, CHOOSE i \in solid : \A j \in solid : i <= j,
                       CHOOSE i \in solid : \A j \in solid : j <= i)

\* The identifier rev-parse resolved the reference to: its trimmed output.
Resolved ==
    Trimmed(events[CHOOSE i \in 1..Len(events) :
                       events[i].kind = "ok" /\ events[i].op = "rev-parse"].text)

\* C1: the external operations are started only in the order rev-parse,
\* cat-file, cherry-pick, commit --amend, each only after every earlier
\* stage has succeeded and never again; success is reached only after the
\* amend succeeded; once a stage has failed the run is in the terminal
\* failed state and no further operation is started.
C1_StagesInOrder ==
    /\ IsPrefix(Started, StageOrder)
    /\ \A i \in 1..Len(events) :
        /\ events[i].kind = "git" =>
             \A j \in 1..(i - 1) :
                 /\ events[j].kind \notin {"error", "raise"}
                 /\ events[j].kind = "git" =>
                      \E k \in (j + 1)..(i - 1) :
                          events[k].kind = "ok" /\ events[k].op = events[j].op
        /\ events[i].kind = "raise" => (i = Len(events) /\ pc = "failed")
    /\ pc = "failed" => (events # <<>> /\ events[Len(events)].kind = "raise")
    /\ pc = "done" =>
        /\ Started = StageOrder
        /\ events[Len(events)].kind = "ok"
        /\ events[Len(events)].op = "commit --amend"

\* A run went through all four stages and returned.
C1_Witness ==
    /\ pc = "done"
    /\ Started = StageOrder

\* C2: when rev-parse --verify fails, neither cat-file nor cherry-pick nor
\* commit --amend is ever started, and the GitError leaves the command.
C2_ResolveFailureAborts ==
    StageFailed("rev-parse") =>
        /\ Started = <<"rev-parse">>
        /\ AbortedAt("rev-parse", "GitError")

C2_Witness ==
    /\ Has("error", "rev-parse")
    /\ pc = "failed"
    /\ Started = <<"rev-parse">>

\* The warning-level records.
Warnings == SelectSeq(events, LAMBDA e : e.kind = "warn")

\* C3: when the cherry-pick fails the command aborts with that failure,
\* commit --amend is never started, and one warning is logged whose last
\* line is the Provenance Reference line of the resolved identifier (the
\* trimmed rev-parse output, not the reference the user passed): the line a
\* successful run appends.
C3_ApplyFailureHint ==
    StageFailed("cherry-pick") =>
        /\ AbortedAt("cherry-pick", "GitError")
        /\ ~Has("git", "commit --amend")
        /\ Len(Warnings) = 1
        /\ Last(splitlines(Warnings[1].text)) = ProvenanceLine(Resolved)
        /\ Last(splitlines(Warnings[1].text))
               = Last(splitlines(_Reformat(old_msg, sha1)))

\* The replay failed after rev-parse printed the identifier with whitespace
\* around it, and the hint was logged.
C3_Witness ==
    /\ Has("raise", "cherry-pick")
    /\ Len(Warnings) = 1
    /\ Has("ok", "rev-parse")
    /\ Resolved = ShaB
    /\ p_stderr = Fatal

\* Position of the first event of the given kind for op (0: none).
IndexOf(kind, op) ==
    LET hits == {i \in 1..Len(events) :
                     events[i].kind = kind /\ events[i].op = op}
    IN  IF hits = {} THEN 0 ELSE CHOOSE i \in hits : \A j \in hits : i <= j

\* C4: when the replay succeeds and the amend fails, the command aborts
\* with the amend's failure, and whatever replay output is echoed was echoed
\* before commit --amend was started.
C4_EchoBeforeAmend ==
    StageFailed("commit --amend") =>
        /\ AbortedAt("commit --amend", "GitError")
        /\ Has("ok", "cherry-pick")
        /\ \A i \in 1..Len(events) :
             events[i].kind \in {"stdout", "stderr"} =>
                 /\ IndexOf("ok", "cherry-pick") < i
                 /\ i < IndexOf("git", "commit --amend")

\* The amend failed after a replay whose stdout and stderr were both echoed.
C4_Witness ==
    /\ Has("raise", "commit --amend")
    /\ Has("stdout", "cherry-pick")
    /\ Has("stderr", "cherry-pick")

---------------------------------------------------------------------------
(* Claims about _Reformat as a function                                    *)

Reformatted == pc \in {"reformatted", "reformatted_twice"}

\* Scenario A of the specification.
ScenarioAInput == FixBug \o <<LF, LF>> \o ChangeIdLine \o <<LF>>
ScenarioAOutput == FixBug \o <<LF, LF>> \o ProvenanceLine(ShaA)

\* C5: _Reformat returns the newline-join of the body's lines that do not
\* match the Change-Id pattern (in order, unmodified), then one empty line
\* iff that retained sequence is non-empty and its last line is not blank,
\* then the Provenance Reference line; Scenario A's body yields
\* "Fix bug", blank line, Provenance Reference, with no trailing newline.
C5_ReformatShape ==
    Reformatted =>
        LET kept == Retained(old_msg)
            sep  == IF kept # <<>> /\ ~IsBlank(Last(kept))
                    THEN << <<>> >> ELSE <<>>
        IN  /\ new_msg = join(<<LF>>, kept \o sep \o <<ProvenanceLine(sha1)>>)
            /\ (old_msg = ScenarioAInput /\ sha1 = ShaA)
                   => new_msg = ScenarioAOutput

C5_Witness ==
    /\ pc = "reformatted"
    /\ old_msg = ScenarioAInput
    /\ sha1 = ShaA
    /\ new_msg = ScenarioAOutput

\* C6: whatever the number and position of the lines matching the Change-Id
\* pattern, no line of the rewritten message matches it.
C6_NoChangeIdLeft ==
    Reformatted =>
        \A i \in 1..Len(splitlines(new_msg)) :
            ~MatchesChangeIdPattern(splitlines(new_msg)[i])

\* Two matching lines, the first of them mid-body, both removed.
C6_Witness ==
    /\ pc = "reformatted"
    /\ old_msg = ChangeIdLine \o <<LF>> \o FixBug \o <<LF>> \o ChangeIdLine
    /\ new_msg = FixBug \o <<LF, LF>> \o ProvenanceLine(sha1)

\* C7: applying _Reformat to its own output removes no line: the second
\* application keeps every line of the first output, in order, and only
\* appends to them (a separator and the Provenance Reference line again).
C7_SecondPassRemovesNothing ==
    pc = "reformatted_twice" =>
        splitlines(again_msg) =
            splitlines(new_msg) \o << <<>>, ProvenanceLine(sha1) >>

\* The first pass removed a Change-Id line; the second pass has run.
C7_Witness ==
    /\ pc = "reformatted_twice"
    /\ Len(Retained(old_msg)) < Len(splitlines(old_msg))
    /\ again_msg # new_msg

\* The last line of the body that is not the empty string, if any, is not
\* blank.
LastNonEmptyLineIsNonBlank(msg) ==
    LET lines == splitlines(msg)
        nonEmpty == {i \in 1..Len(lines) : lines[i] # <<>>}
    IN  /\ nonEmpty # {}
        /\ ~IsBlank(lines[CHOOSE i \in nonEmpty : \A j \in nonEmpty : j <= i])

\* Exactly one blank line stands immediately before the last line of out.
OneBlankBeforeLast(out) ==
    /\ Len(out) >= 2
    /\ IsBlank(out[Len(out) - 1])
    /\ Len(out) >= 3 => ~IsBlank(out[Len(out) - 2])

\* C8 as stated: for every body whose last non-empty line is non-blank,
\* exactly one blank line stands immediately before the Provenance
\* Reference line.  (Bodies with no line left after removing the Change-Id
\* lines are the case of C9 and are left out, so that a violation does not
\* rest on them.)
C8_AsStated ==
    (Reformatted /\ LastNonEmptyLineIsNonBlank(old_msg)
                 /\ Retained(old_msg) # <<>>) =>
        OneBlankBeforeLast(splitlines(new_msg))

\* C8, amended: for every body whose last retained line (the last line left
\* once the Change-Id lines are removed) exists and is non-blank, the
\* rewritten message ends with that line, one empty line, and the
\* Provenance Reference line.
C8_OneBlankAfterNonBlankRetained ==
    (Reformatted /\ Retained(old_msg) # <<>>
                 /\ ~IsBlank(Last(Retained(old_msg)))) =>
        LET out == splitlines(new_msg)
            n   == Len(out)
        IN  /\ n >= 3
            /\ out[n] = ProvenanceLine(sha1)
            /\ out[n - 1] = <<>>
            /\ out[n - 2] = Last(Retained(old_msg))

\* A body ending in a non-blank retained line got its separator.
C8_Witness ==
    /\ pc = "reformatted"
    /\ old_msg = FixBug \o <<LF>> \o ChangeIdLine \o <<LF>>
    /\ new_msg = FixBug \o <<LF, LF>> \o ProvenanceLine(sha1)

\* C9: a body with no line left after removing the Change-Id lines (the
\* empty body, a body of Change-Id lines only) is rewritten, without
\* failing, to exactly the Provenance Reference line.
C9_EmptyGivesReferenceOnly ==
    (Reformatted /\ Retained(old_msg) = <<>>) =>
        new_msg = ProvenanceLine(sha1)

C9_Witness ==
    /\ pc = "reformatted"
    /\ old_msg = ChangeIdLine \o <<LF>> \o ChangeIdLine \o <<LF>>
    /\ new_msg = ProvenanceLine(sha1)

\* C10: the last line of the rewritten message is the Provenance Reference
\* line, exactly "(cherry picked from commit <sha>)" with the full
\* identifier, and nothing follows it.
C10_ReferenceIsLastLine ==
    Reformatted =>
        /\ splitlines(new_msg) # <<>>
        /\ Last(splitlines(new_msg)) = ProvenanceLine(sha1)
        /\ EndsWith(new_msg, ProvenanceLine(sha1))
        /\ Len(sha1) = 40 => Len(Last(splitlines(new_msg))) = 68

C10_Witness ==
    /\ pc = "reformatted"
    /\ sha1 = ShaB
    /\ old_msg = FixBug
    /\ Last(splitlines(new_msg)) = ProvenanceLine(ShaB)

---------------------------------------------------------------------------
(* Claims about _StripHeader as a function                                 *)

\* Positions of the lines of text that are the empty string.
EmptyLines(text) ==
    {i \in 1..Len(splitlines(text)) : splitlines(text)[i] = <<>>}

\* C11: for every raw text with at least one line equal to the empty
\* string, _StripHeader returns exactly the lines strictly after the first
\* such line, in order, joined by newlines: later empty lines are kept and a
\* whitespace-only line is not taken for the separator.
C11_BodyIsSuffixAfterFirstEmptyLine ==
    (pc \in {"stripped", "strip-raised"} /\ EmptyLines(p_stdout) # {}) =>
        LET lines == splitlines(p_stdout)
            first == CHOOSE i \in EmptyLines(p_stdout) :
                         \A j \in EmptyLines(p_stdout) : i <= j
        IN  /\ pc = "stripped"
            /\ old_msg = join(<<LF>>,
                   [i \in 1..(Len(lines) - first) |-> lines[first + i]])

\* A whitespace-only line stood before the empty line, and a second empty
\* line after it: the body starts after the first empty line and keeps the
\* second.
C11_Witness ==
    /\ pc = "stripped"
    /\ p_stdout = <<" ", LF, LF, LF>> \o FixBug
    /\ old_msg = <<LF>> \o FixBug

---------------------------------------------------------------------------
(* Further claims about a run of the command                               *)

\* The captured output of the completed command op.
OutputOf(op) == events[IndexOf("ok", op)].text

\* C12: when the raw commit returned by cat-file has no line equal to the
\* empty string, extraction raises instead of returning a message: the run
\* ends in failure at the extraction stage, no message has been extracted,
\* and neither cherry-pick nor commit --amend is started.
C12_MalformedObjectAborts ==
    (Has("ok", "cat-file") /\ EmptyLines(OutputOf("cat-file")) = {}) =>
        /\ AbortedAt("cat-file", "ValueError")
        /\ old_msg = <<>>
        /\ Started = <<"rev-parse", "cat-file">>

C12_Witness ==
    /\ Has("ok", "cat-file")
    /\ OutputOf("cat-file") = TreeHeader \o <<LF>> \o FixBug \o <<LF, " ", LF>>
    /\ pc = "failed"

\* C13: the command takes exactly one positional argument.  With any other
\* count validation prints the usage and ends with a usage error, and no
\* external operation is ever started; with exactly one it passes and
\* changes nothing.
C13_ExactlyOneArgument ==
    /\ Len(args) # 1 =>
        \/ pc = "validate" /\ events = <<>>
        \/ /\ AbortedAt("validate", "UsageError")
           /\ Len(events) = 2
           /\ events[1].kind = "usage"
    /\ Len(args) = 1 =>
        /\ ~Has("usage", "validate")
        /\ ~Has("raise", "validate")
        /\ pc = "execute" =>
             /\ events = <<>>
             /\ <<sha1, old_msg, new_msg, p_stdout, p_stderr>>
                    = <<<<>>, <<>>, <<>>, <<>>, <<>>>>

\* Two arguments were passed and the usage error ended the command.
C13_Witness ==
    /\ Len(args) = 2
    /\ pc = "failed"
    /\ Has("usage", "validate")

\* The names of the four stages.
Stages == {StageOrder[i] : i \in 1..Len(StageOrder)}

\* C14: every stage failure, the malformed-object failure of the extract
\* stage included, is logged at error level for its stage before it is
\* re-raised, and no failure ends in a normal return.
C14_EveryFailureLogged ==
    /\ \A i \in 1..Len(events) :
         (events[i].kind = "raise" /\ events[i].op \in Stages) =>
             \E j \in 1..(i - 1) :
                 events[j].kind = "error" /\ events[j].op = events[i].op
    /\ pc = "done" =>
         \A i \in 1..Len(events) : events[i].kind \notin {"error", "raise"}

\* Positions at which op was started.
Starts(op) ==
    {i \in 1..Len(events) : events[i].kind = "git" /\ events[i].op = op}

\* C15: no stage is retried: in a run each of rev-parse, cat-file,
\* cherry-pick and commit --amend is started at most once, whether it
\* succeeds or fails.
C15_AtMostOnce ==
    \A op \in Stages : Cardinality(Starts(op)) <= 1

\* The replay failed, with an empty diagnostic, after being started once.
C15_Witness ==
    /\ Has("raise", "cherry-pick")
    /\ Cardinality(Starts("cherry-pick")) = 1
    /\ Cardinality(Starts("rev-parse")) = 1
    /\ p_stderr = <<>>

\* Trailing whitespace removed.
RightTrimmed(s) ==
    LET solid == {i \in 1..Len(s) : s[i] \notin Whitespace}
    IN  IF solid = {} THEN <<>>
        ELSE SubSeq(s, 1, CHOOSE i \in solid : \A j \in solid : j <= i)

\* The records of the given kind.
OfKind(kind) == SelectSeq(events, LAMBDA e : e.kind = kind)

\* The captured stream is echoed as one record of the given kind, holding
\* shown, if and only if it is non-empty.
EchoedIffNonEmpty(kind, captured, shown) ==
    /\ Len(OfKind(kind)) = (IF captured # <<>> THEN 1 ELSE 0)
    /\ captured # <<>> => OfKind(kind)[1].text = shown

\* Nothing is echoed unless the replay succeeded, and stdout comes first.
EchoOrder ==
    /\ ~Has("ok", "cherry-pick") => (OfKind("stdout") = <<>> /\ OfKind("stderr") = <<>>)
    /\ (OfKind("stdout") # <<>> /\ OfKind("stderr") # <<>>) =>
          IndexOf("stdout", "cherry-pick") < IndexOf("stderr", "cherry-pick")

\* C16 as stated: on a successful replay each captured stream is echoed iff
\* it is non-empty, trimmed of trailing whitespace and otherwise verbatim,
\* stdout before stderr; on a failed replay nothing is echoed.
C16_AsStated ==
    /\ EchoOrder
    /\ Has("ok", "cherry-pick") =>
        LET done == events[IndexOf("ok", "cherry-pick")]
        IN  /\ EchoedIffNonEmpty("stdout", done.text, RightTrimmed(done.text))
            /\ EchoedIffNonEmpty("stderr", done.err, RightTrimmed(done.err))

\* C16, amended: on a successful replay each captured stream is echoed iff
\* it is non-empty, trimmed of leading and trailing whitespace and
\* otherwise verbatim, stdout before stderr; on a failed replay nothing is
\* echoed.
C16_EchoTrimmedBothSides ==
    /\ EchoOrder
    /\ Has("ok", "cherry-pick") =>
        LET done == events[IndexOf("ok", "cherry-pick")]
        IN  /\ EchoedIffNonEmpty("stdout", done.text, Trimmed(done.text))
            /\ EchoedIffNonEmpty("stderr", done.err, Trimmed(done.err))

\* The replay succeeded with an indented line on stderr and nothing on
\* stdout: stderr alone was echoed, without its indentation.
C16_Witness ==
    /\ Has("ok", "cherry-pick")
    /\ events[IndexOf("ok", "cherry-pick")].err = <<" ">> \o Hint
    /\ events[IndexOf("ok", "cherry-pick")].text = <<>>
    /\ OfKind("stdout") = <<>>
    /\ Len(OfKind("stderr")) = 1

\* The argument op was started with.
ArgumentOf(op) == events[IndexOf("git", op)].text

\* C17: the identifier handed to cat-file, the one handed to cherry-pick and
\* the one inside the Provenance Reference are all the trimmed rev-parse
\* output, and the message given to commit --amend on standard input is
\* _Reformat(_StripHeader(cat-file output), that identifier): it derives
\* from the original commit's message, read before the replay.
C17_ThreadedUnchanged ==
    /\ Has("git", "cat-file") =>
        /\ ArgumentOf("cat-file") = Trimmed(OutputOf("rev-parse"))
        /\ sha1 = Trimmed(OutputOf("rev-parse"))
    /\ Has("git", "cherry-pick") =>
        /\ ArgumentOf("cherry-pick") = Trimmed(OutputOf("rev-parse"))
        /\ old_msg = _StripHeader(OutputOf("cat-file"))
    /\ Has("git", "commit --amend") =>
        /\ ArgumentOf("commit --amend") =
               _Reformat(_StripHeader(OutputOf("cat-file")),
                         Trimmed(OutputOf("rev-parse")))
        /\ EndsWith(ArgumentOf("commit --amend"),
                    ProvenanceLine(Trimmed(OutputOf("rev-parse"))))
        /\ new_msg = ArgumentOf("commit --amend")

\* A full run: rev-parse printed the identifier with whitespace around it,
\* the original message carried a Change-Id line, the replay printed a line.
C17_Witness ==
    /\ pc = "done"
    /\ OutputOf("rev-parse") = <<" ">> \o ShaB \o <<CR, LF>>
    /\ OutputOf("cat-file") =
           TreeHeader \o <<LF, LF>> \o FixBug \o <<LF, LF>> \o ChangeIdLine \o <<LF>>
    /\ OutputOf("cherry-pick") = Picked
    /\ ArgumentOf("commit --amend") = FixBug \o <<LF, LF>> \o ProvenanceLine(ShaB)

\* C18: nothing is rolled back on failure.  After an amend failure no
\* further external operation is started, so the replayed commit stays
\* with its message unedited; after a cherry-pick failure no cleanup
\* operation is started either.  No operation other than the four stages is
\* ever started.
C18_NoRollback ==
    /\ \A i \in 1..Len(events) : events[i].kind = "git" => events[i].op \in Stages
    /\ StageFailed("commit --amend") =>
        /\ Started = StageOrder
        /\ Has("ok", "cherry-pick")
        /\ ~Has("ok", "commit --amend")
        /\ \A i \in 1..Len(events) :
             events[i].kind = "git" => i < IndexOf("error", "commit --amend")
    /\ StageFailed("cherry-pick") =>
        /\ Started = <<"rev-parse", "cat-file", "cherry-pick">>
        /\ ~Has("ok", "cherry-pick")
        /\ \A i \in 1..Len(events) :
             events[i].kind = "git" => i < IndexOf("error", "cherry-pick")

\* The amend failed after a silent replay.
C18_Witness ==
    /\ Has("raise", "commit --amend")
    /\ OfKind("stdout") = <<>>
    /\ OfKind("stderr") = <<>>
    /\ Started = StageOrder

===========================================================================
